---- MODULE Spec2Model ----
(***************************************************************************)
(* A model of torchnlp/encoders/text/spacy_encoder.py: the constructor of  *)
(* SpacyEncoder, step by step, and its batch_encode method.                *)
(*                                                                         *)
(* Text is a sequence of characters, a token is a sequence of characters,  *)
(* a Python dict is a function whose DOMAIN is its key set, and the        *)
(* attributes of the object under construction are the dict self.          *)
(***************************************************************************)
EXTENDS Integers, Sequences, FiniteSets, TLC

VARIABLES
    args,           \* positional arguments of the constructor: <<sample>>
    kwargs,         \* keyword arguments of the constructor (a dict)
    lib_available,  \* runtime: import spacy succeeds
    installed,      \* runtime: the model names spacy.load can find
    pc,             \* position in __init__ (a line number), then ready/returned/raised
    language,       \* the local variable language of __init__
    self,           \* the attributes of the SpacyEncoder instance
    exc,            \* the exception being handled inside an except block
    error,          \* the exception that propagated to the caller
    stdout,         \* the lines printed so far
    load_calls,     \* the calls made to spacy.load so far
    sequences,      \* the argument of the batch_encode call that last returned
    return_,        \* the value that call returned
    calls           \* the number of batch_encode calls made

vars == <<args, kwargs, lib_available, installed, pc, language, self, exc, error,
          stdout, load_calls, sequences, return_, calls>>

---------------------------------------------------------------------------
(* Bounds of the model *)

\* a batch has at most MaxInput strings and characters in total, counted together
MaxInput == 5
\* batch_encode is called at most MaxCalls times on one instance
MaxCalls == 2

---------------------------------------------------------------------------
(* Values *)

Unset == "<unset>"
NoException == [type |-> "none", msg |-> <<>>]
EmptyDict == <<>>

Chars == {"a", ".", " "}

RECURSIVE StringsOfLen(_)
StringsOfLen(n) ==
    IF n = 0 THEN {<<>>}
    ELSE {Append(s, c) : s \in StringsOfLen(n - 1), c \in Chars}

\* the batches in which the number of strings plus the number of characters is n
RECURSIVE BatchesOfWeight(_)
BatchesOfWeight(n) ==
    IF n = 0 THEN {<<>>}
    ELSE UNION {{<<s>> \o b : s \in StringsOfLen(w - 1), b \in BatchesOfWeight(n - w)}
                : w \in 1..n}

Batches == UNION {BatchesOfWeight(n) : n \in 0..MaxInput}

\* the samples a caller builds the vocabulary from
Samples == { << <<"a">> >>,
             << <<"a", ".">>, <<".", " ", "a">> >> }

\* the language codes a caller asks for: supported ones and one that is not
LanguageArgs == {"en", "xx", "ja"}

\* the model names the runtime may have installed
Environments == { {}, {"en"}, {"en", "xx", "ja"} }

KwOpt(key, values) == {EmptyDict} \cup {key :> v : v \in values}

KwargsSet ==
    {t @@ l @@ a @@ i :
        t \in KwOpt("tokenize", {"custom_fn"}),
        l \in KwOpt("language", LanguageArgs),
        a \in KwOpt("append_eos", {TRUE}),
        i \in {EmptyDict, ("unknown_index" :> 3) @@ ("eos_index" :> 4)}}

Range(f) == {f[k] : k \in DOMAIN f}

\* dict.get(key, default)
DictGet(d, key, default) == IF key \in DOMAIN d THEN d[key] ELSE default

---------------------------------------------------------------------------
(* The tokenizer library: spacy.load(name) gives a model; calling the model *)
(* on a text gives a Doc, a sequence of Token objects with a text.          *)

RECURSIVE Scan(_, _, _, _, _)
Scan(s, k, cur, out, punct) ==
    LET flushed == IF cur = <<>> THEN out ELSE Append(out, cur) IN
    IF k > Len(s) THEN flushed
    ELSE IF s[k] = " " THEN Scan(s, k + 1, <<>>, flushed, punct)
    ELSE IF punct /\ s[k] = "." THEN Scan(s, k + 1, <<>>, Append(flushed, <<".">>), punct)
    ELSE Scan(s, k + 1, Append(cur, s[k]), out, punct)

\* the multi-language model splits on whitespace alone, the others split punctuation off
Segment(model, s) == Scan(s, 1, <<>>, <<>>, model # "xx")

\* tokenizer(s)
NlpCall(model, s) ==
    LET toks == Segment(model, s)
    IN  [k \in 1..Len(toks) |-> [text |-> toks[k], i |-> k - 1]]

\* tokenizer.pipe(sequences, n_threads=-1): one Doc per text, in the order of the texts
NlpPipe(model, texts) == [n \in 1..Len(texts) |-> NlpCall(model, texts[n])]

---------------------------------------------------------------------------
(* spacy_encoder.py *)

\* def _tokenize(s, tokenizer)
_tokenize(s, tokenizer) ==
    LET doc == NlpCall(tokenizer, s)
    IN  [k \in 1..Len(doc) |-> doc[k].text]


\* supported_languages = [...]
supported_languages == <<"en", "de", "es", "pt", "fr", "it", "nl", "xx">>

\* TypeError('Encoder does not take keyword argument tokenize.')
TokenizeKeywordError ==
    [type |-> "TypeError", msg |-> <<"Encoder does not take keyword argument tokenize.">>]

\* what a failing import of spacy raises
SpacyImportError == [type |-> "ImportError", msg |-> <<"No module named spacy">>]

\* print("Please install spaCy: " "pip install spacy"), the text without its quotes
InstallHint == "Please install spaCy: pip install spacy"

\* what spacy.load raises for a model that is not installed
ModelNotFound(name) == [type |-> "OSError", msg |-> <<"Cannot find model ", name>>]

\* ValueError("Language {0} not found. Install using spaCy: python -m spacy download {0}")
LanguageNotFoundError(lang) ==
    [type |-> "ValueError",
     msg  |-> <<"Language ", lang, " not found. Install using spaCy: ",
                "python -m spacy download ", lang>>]

\* ValueError("No tokenizer available for language %s. Currently supported are %s")
NoTokenizerError(lang, supported) ==
    [type |-> "ValueError",
     msg  |-> <<"No tokenizer available for language ", lang,
                ". Currently supported are ">> \o supported]

\* spacy.load(language, disable=['parser', 'tagger', 'ner'])
LoadCall(lang) == [name |-> lang, disable |-> <<"parser", "tagger", "ner">>]

\* partial(_tokenize, tokenizer=self.spacy)
Partial(tokenizer) == [func |-> "_tokenize", tokenizer |-> tokenizer]

\* calling the partial object on a text
CallPartial(p, s) == _tokenize(s, p.tokenizer)

\* torch.tensor(vector): the element type is inferred from the data, and a list
\* with no elements gives a tensor of the default floating-point type
TorchTensor(vector) ==
    [dtype |-> IF Len(vector) = 0 THEN "float32" ELSE "int64", data |-> vector]

---------------------------------------------------------------------------
(* The base class StaticTokenizerEncoder, which this file only calls *)

reserved_tokens == << <<"<pad>">>, <<"<unk>">>, <<"</s>">>, <<"<s>">>, <<"<copy>">> >>
DEFAULT_UNKNOWN_INDEX == 1
DEFAULT_EOS_INDEX == 2

RECURSIVE AddTokens(_, _, _)
AddTokens(itos, tokens, k) ==
    IF k > Len(tokens) THEN itos
    ELSE AddTokens(IF tokens[k] \in Range(itos) THEN itos ELSE Append(itos, tokens[k]),
                   tokens, k + 1)

\* the vocabulary: the reserved tokens, then the tokens of the sample in order of
\* first occurrence
RECURSIVE BuildVocab(_, _, _, _)
BuildVocab(itos, sample, tokenize, k) ==
    IF k > Len(sample) THEN itos
    ELSE BuildVocab(AddTokens(itos, CallPartial(tokenize, sample[k]), 1),
                    sample, tokenize, k + 1)

\* StaticTokenizerEncoder.__init__(sample, tokenize=..., **kwargs)
StaticTokenizerEncoderInit(obj, a, tokenize, kw) ==
    LET itos == BuildVocab(reserved_tokens, a[1], tokenize, 1)
    IN  obj @@ [tokenize      |-> tokenize,
                append_eos    |-> DictGet(kw, "append_eos", FALSE),
                eos_index     |-> DictGet(kw, "eos_index", DEFAULT_EOS_INDEX),
                unknown_index |-> DictGet(kw, "unknown_index", DEFAULT_UNKNOWN_INDEX),
                itos          |-> itos,
                stoi          |-> [t \in Range(itos) |->
                                     (CHOOSE k \in 1..Len(itos) : itos[k] = t) - 1]]

\* StaticTokenizerEncoder.encode(text), the single-item path
BaseEncode(obj, s) ==
    LET text    == CallPartial(obj.tokenize, s)
        vector  == [k \in 1..Len(text) |-> DictGet(obj.stoi, text[k], obj.unknown_index)]
    IN  TorchTensor(IF obj.append_eos THEN Append(vector, obj.eos_index) ELSE vector)

---------------------------------------------------------------------------
(* SpacyEncoder.__init__ *)

Init ==
    /\ args \in {<<s>> : s \in Samples}
    /\ kwargs \in KwargsSet
    /\ lib_available \in BOOLEAN
    /\ installed \in Environments
    /\ pc = "L49"
    /\ language = Unset
    /\ self = EmptyDict
    /\ exc = NoException
    /\ error = NoException
    /\ stdout = <<>>
    /\ load_calls = <<>>
    /\ sequences = <<>>
    /\ return_ = <<>>
    /\ calls = 0

\* check_tokenize without its test: the keyword is passed on
check_tokenize_ignored ==
    /\ pc = "L49"
    /\ pc' = "L53"
    /\ UNCHANGED <<args, kwargs, lib_available, installed, language, self, exc, error,
                   stdout, load_calls, sequences, return_, calls>>

\* if 'tokenize' in kwargs: raise TypeError(...)
check_tokenize ==
    /\ pc = "L49"
    /\ IF "tokenize" \in DOMAIN kwargs
       THEN /\ error' = TokenizeKeywordError
            /\ pc' = "raised"
       ELSE /\ pc' = "L53"
            /\ UNCHANGED error
    /\ UNCHANGED <<args, kwargs, lib_available, installed, language, self, exc,
                   stdout, load_calls, sequences, return_, calls>>

\* try: import spacy / except ImportError:
import_spacy ==
    /\ pc = "L53"
    /\ IF lib_available
       THEN /\ pc' = "L59"
            /\ UNCHANGED exc
       ELSE /\ exc' = SpacyImportError
            /\ pc' = "L55"
    /\ UNCHANGED <<args, kwargs, lib_available, installed, language, self, error,
                   stdout, load_calls, sequences, return_, calls>>

\* print_install_hint without the print
print_install_hint_skipped ==
    /\ pc = "L55"
    /\ pc' = "L56"
    /\ UNCHANGED <<args, kwargs, lib_available, installed, language, self, exc, error,
                   stdout, load_calls, sequences, return_, calls>>

\* print("Please install spaCy: ...")
print_install_hint ==
    /\ pc = "L55"
    /\ stdout' = Append(stdout, InstallHint)
    /\ pc' = "L56"
    /\ UNCHANGED <<args, kwargs, lib_available, installed, language, self, exc, error,
                   load_calls, sequences, return_, calls>>

\* raise (inside the except block: the exception being handled, as it is)
reraise ==
    /\ pc = "L56"
    /\ error' = exc
    /\ pc' = "raised"
    /\ UNCHANGED <<args, kwargs, lib_available, installed, language, self, exc,
                   stdout, load_calls, sequences, return_, calls>>

\* get_language with another default
get_language_default_xx ==
    /\ pc = "L59"
    /\ language' = DictGet(kwargs, "language", "xx")
    /\ pc' = "L65"
    /\ UNCHANGED <<args, kwargs, lib_available, installed, self, exc, error,
                   stdout, load_calls, sequences, return_, calls>>

\* language = kwargs.get('language', 'en')
get_language ==
    /\ pc = "L59"
    /\ language' = DictGet(kwargs, "language", "en")
    /\ pc' = "L65"
    /\ UNCHANGED <<args, kwargs, lib_available, installed, self, exc, error,
                   stdout, load_calls, sequences, return_, calls>>

\* check_supported that substitutes English for a code it does not know
check_supported_fallback ==
    /\ pc = "L65"
    /\ language' = IF language \in Range(supported_languages) THEN language ELSE "en"
    /\ pc' = "L68"
    /\ UNCHANGED <<args, kwargs, lib_available, installed, self, exc, error,
                   stdout, load_calls, sequences, return_, calls>>

\* if language in supported_languages: ... else: raise ValueError(...)
check_supported ==
    /\ pc = "L65"
    /\ IF language \in Range(supported_languages)
       THEN /\ pc' = "L68"
            /\ UNCHANGED error
       ELSE /\ error' = NoTokenizerError(language, supported_languages)
            /\ pc' = "raised"
    /\ UNCHANGED <<args, kwargs, lib_available, installed, language, self, exc,
                   stdout, load_calls, sequences, return_, calls>>

\* try: self.spacy = spacy.load(language, disable=[...]) / except OSError:
load_model ==
    /\ pc = "L68"
    /\ load_calls' = Append(load_calls, LoadCall(language))
    /\ IF language \in installed
       THEN /\ self' = ("spacy" :> language) @@ self
            /\ pc' = "L77"
            /\ UNCHANGED exc
       ELSE /\ exc' = ModelNotFound(language)
            /\ pc' = "L70"
            /\ UNCHANGED self
    /\ UNCHANGED <<args, kwargs, lib_available, installed, language, error,
                   stdout, sequences, return_, calls>>

\* raise_not_found that tries English before giving up
raise_not_found_fallback ==
    /\ pc = "L70"
    /\ IF "en" \in installed /\ language # "en"
       THEN /\ load_calls' = Append(load_calls, LoadCall("en"))
            /\ self' = ("spacy" :> "en") @@ self
            /\ pc' = "L77"
            /\ UNCHANGED error
       ELSE /\ error' = LanguageNotFoundError(language)
            /\ pc' = "raised"
            /\ UNCHANGED <<self, load_calls>>
    /\ UNCHANGED <<args, kwargs, lib_available, installed, language, exc,
                   stdout, sequences, return_, calls>>

\* raise ValueError("Language '{0}' not found. ...".format(language))
raise_not_found ==
    /\ pc = "L70"
    /\ error' = LanguageNotFoundError(language)
    /\ pc' = "raised"
    /\ UNCHANGED <<args, kwargs, lib_available, installed, language, self, exc,
                   stdout, load_calls, sequences, return_, calls>>

\* super().__init__(*args, tokenize=partial(_tokenize, tokenizer=self.spacy), **kwargs)
base_init ==
    /\ pc = "L77"
    /\ self' = StaticTokenizerEncoderInit(self, args, Partial(self.spacy), kwargs)
    /\ pc' = "ready"
    /\ UNCHANGED <<args, kwargs, lib_available, installed, language, exc, error,
                   stdout, load_calls, sequences, return_, calls>>

---------------------------------------------------------------------------
(* SpacyEncoder.batch_encode *)

\* Lookup by subscript, self.stoi[token], with the KeyError taken as the padding index
Lookup_subscript(obj, token) == DictGet(obj.stoi, token, 0)

\* self.stoi.get(token, self.unknown_index)
Lookup(obj, token) == DictGet(obj.stoi, token, obj.unknown_index)

\* AppendEos that ignores the flag
AppendEos_always(obj, vector) == Append(vector, obj.eos_index)

\* AppendEos that appends the index found under the end-of-sequence token instead
AppendEos_token(obj, vector) ==
    IF obj.append_eos THEN Append(vector, obj.stoi[reserved_tokens[3]]) ELSE vector

\* if self.append_eos: vector.append(self.eos_index)
AppendEos(obj, vector) ==
    IF obj.append_eos THEN Append(vector, obj.eos_index) ELSE vector

\* the body of the loop: one Doc to one tensor
EncodeTokens(obj, tokens) ==
    LET text   == [k \in 1..Len(tokens) |-> tokens[k].text]
        vector == [k \in 1..Len(text) |-> Lookup(obj, text[k])]
    IN  TorchTensor(AppendEos(obj, vector))

\* for tokens in self.spacy.pipe(...): ... return_.append(...)
RECURSIVE BatchLoop(_, _, _, _)
BatchLoop(obj, docs, n, acc) ==
    IF n > Len(docs) THEN acc
    ELSE BatchLoop(obj, docs, n + 1, Append(acc, EncodeTokens(obj, docs[n])))

\* BatchLoop that inserts at the front
RECURSIVE BatchLoopFront(_, _, _, _)
BatchLoopFront(obj, docs, n, acc) ==
    IF n > Len(docs) THEN acc
    ELSE BatchLoopFront(obj, docs, n + 1, <<EncodeTokens(obj, docs[n])>> \o acc)

\* BatchEncode with that loop
BatchEncode_reversed(obj, seqs) == BatchLoopFront(obj, NlpPipe(obj.spacy, seqs), 1, <<>>)

\* def batch_encode(self, sequences): the value returned
BatchEncode(obj, seqs) == BatchLoop(obj, NlpPipe(obj.spacy, seqs), 1, <<>>)

\* batch_encode that adds the tokens it does not know to the vocabulary
batch_encode_learning ==
    /\ pc = "ready"
    /\ calls < MaxCalls
    /\ \E seqs \in Batches :
          LET itos == BuildVocab(self.itos, seqs, self.tokenize, 1)
              stoi == [tok \in Range(itos) |->
                         (CHOOSE k \in 1..Len(itos) : itos[k] = tok) - 1]
          IN  /\ sequences' = seqs
              /\ return_' = BatchEncode(self, seqs)
              /\ self' = [self EXCEPT !.itos = itos, !.stoi = stoi]
    /\ calls' = calls + 1
    /\ pc' = "returned"
    /\ UNCHANGED <<args, kwargs, lib_available, installed, language, exc, error,
                   stdout, load_calls>>

\* a call of batch_encode on the constructed instance
batch_encode ==
    /\ pc = "ready"
    /\ calls < MaxCalls
    /\ \E seqs \in Batches :
          /\ sequences' = seqs
          /\ return_' = BatchEncode(self, seqs)
    /\ calls' = calls + 1
    /\ pc' = "returned"
    /\ UNCHANGED <<args, kwargs, lib_available, installed, language, self, exc, error,
                   stdout, load_calls>>

\* return return_: the caller takes the result and the instance is idle again
result_taken ==
    /\ pc = "returned"
    /\ sequences' = <<>>
    /\ return_' = <<>>
    /\ pc' = "ready"
    /\ UNCHANGED <<args, kwargs, lib_available, installed, language, self, exc, error,
                   stdout, load_calls, calls>>

---------------------------------------------------------------------------

Next ==
    \/ check_tokenize
    \/ import_spacy
    \/ print_install_hint
    \/ reraise
    \/ get_language
    \/ check_supported
    \/ load_model
    \/ raise_not_found
    \/ base_init
    \/ batch_encode
    \/ result_taken

Spec == Init /\ [][Next]_vars

---------------------------------------------------------------------------
(* Properties *)

\* the language code the caller asked for
Requested == DictGet(kwargs, "language", "en")
Supported == Range(supported_languages)
TokenizeGiven == "tokenize" \in DOMAIN kwargs
Constructed == pc \in {"ready", "returned"}
Failed == pc = "raised"
Finished == Constructed \/ Failed
BaseAttributes == {"tokenize", "append_eos", "eos_index", "unknown_index", "itos", "stoi"}

\* the tokens of the n-th text of the last batch, as the loaded model segments it
TokensOf(n) == Segment(self.spacy, sequences[n])

\* C1: batch_encode(seqs) is the list that single-item encode gives for each element of
\* seqs in turn; in particular batch_encode([s]) is one vector, encode(s).
C1_BatchEqualsEncodeLoop ==
    pc = "returned" =>
        return_ = [n \in 1..Len(sequences) |-> BaseEncode(self, sequences[n])]

\* a one-string batch whose only token is out of vocabulary, with the end marker on
C1_Witness ==
    /\ pc = "returned"
    /\ sequences = << <<"a", "a">> >>
    /\ self.append_eos
    /\ return_ = <<[dtype |-> "int64", data |-> <<self.unknown_index, self.eos_index>>]>>

\* C2: batch_encode returns one vector per input string, and the n-th vector is what the
\* n-th string gives when encoded in a batch of its own.
C2_OnePerInputInOrder ==
    pc = "returned" =>
        /\ Len(return_) = Len(sequences)
        /\ \A n \in 1..Len(sequences) :
              LET alone == BatchEncode(self, <<sequences[n]>>)
              IN  Len(alone) = 1 /\ return_[n] = alone[1]

\* three strings, the last two equal, the first encoded differently from them
C2_Witness ==
    /\ pc = "returned"
    /\ Len(sequences) = 3
    /\ Len(return_) = 3
    /\ sequences[2] = sequences[3]
    /\ return_[1] # return_[2]

\* C3: a token that is a key of the vocabulary is encoded to its index, any other token
\* to the unknown index, and the call returns without an exception.
C3_UnknownTokensToUnknownIndex ==
    pc = "returned" =>
        /\ error = NoException
        /\ Len(return_) = Len(sequences)
        /\ \A n \in 1..Len(sequences) :
              /\ Len(return_[n].data) >= Len(TokensOf(n))
              /\ \A k \in 1..Len(TokensOf(n)) :
                    return_[n].data[k] =
                        IF TokensOf(n)[k] \in DOMAIN self.stoi
                        THEN self.stoi[TokensOf(n)[k]]
                        ELSE self.unknown_index

\* one text of the batch holds a token of the vocabulary and a token outside it
C3_Witness ==
    /\ pc = "returned"
    /\ \E n \in 1..Len(sequences) :
          /\ \E k \in 1..Len(TokensOf(n)) : TokensOf(n)[k] \in DOMAIN self.stoi
          /\ \E k \in 1..Len(TokensOf(n)) : TokensOf(n)[k] \notin DOMAIN self.stoi

\* C4: with append_eos set every vector is one longer than its token count and ends with
\* the configured eos index; with it unset every vector is as long as its token count
\* and holds the indices of its tokens and nothing else.
C4_EosSuffixIffConfigured ==
    pc = "returned" =>
        \A n \in 1..Len(sequences) :
            LET data == return_[n].data IN
            LET indices == [k \in 1..Len(TokensOf(n)) |-> Lookup(self, TokensOf(n)[k])] IN
            IF self.append_eos
            THEN /\ Len(data) = Len(TokensOf(n)) + 1
                 /\ data[Len(data)] = self.eos_index
                 /\ SubSeq(data, 1, Len(data) - 1) = indices
            ELSE /\ Len(data) = Len(TokensOf(n))
                 /\ data = indices

\* the empty string, encoded with the end marker at a configured index
C4_Witness ==
    /\ pc = "returned"
    /\ self.append_eos
    /\ "eos_index" \in DOMAIN kwargs
    /\ \E n \in 1..Len(sequences) :
          sequences[n] = <<>> /\ return_[n].data = <<kwargs["eos_index"]>>

\* C5: with a tokenize keyword the constructor fails with the TypeError whatever the
\* other arguments and the runtime are, no model is loaded and the base class is never
\* initialised.
C5_TokenizeKeywordRejected ==
    (TokenizeGiven /\ pc # "L49") =>
        /\ Failed
        /\ error = TokenizeKeywordError
        /\ load_calls = <<>>
        /\ self = EmptyDict

\* the keyword given together with a missing library and an unsupported language
C5_Witness ==
    /\ TokenizeGiven
    /\ Failed
    /\ ~lib_available
    /\ Requested \notin Supported

\* C6 as stated: any construction with an unsupported language code ends in the
\* ValueError that names the code and lists the supported codes.
C6_UnsupportedAlwaysValueError ==
    (Requested \notin Supported /\ Finished) =>
        /\ Failed
        /\ error.type = "ValueError"
        /\ Requested \in Range(error.msg)
        /\ Supported \subseteq Range(error.msg)

\* C6, amended: with an unsupported language code no model load is attempted and no
\* tokenizer is set, and when no tokenize keyword is given and the library imports the
\* construction ends in the ValueError that names the code and lists the supported codes.
C6_UnsupportedRejected ==
    Requested \notin Supported =>
        /\ load_calls = <<>>
        /\ self = EmptyDict
        /\ ~Constructed
        /\ language \in {Unset, Requested}
        /\ (Failed /\ ~TokenizeGiven /\ lib_available) =>
              /\ error.type = "ValueError"
              /\ Requested \in Range(error.msg)
              /\ Supported \subseteq Range(error.msg)

\* an unsupported code whose model the runtime does have, rejected
C6_Witness ==
    /\ Failed
    /\ Requested \notin Supported
    /\ Requested \in installed
    /\ "en" \in installed
    /\ error.type = "ValueError"

\* C7 as stated: any construction without the library ends in the ImportError, after
\* the installation message.
C7_MissingLibraryAlwaysImportError ==
    (~lib_available /\ Finished) =>
        /\ Failed
        /\ error = SpacyImportError
        /\ stdout = <<InstallHint>>

\* C7, amended: without the library and without a tokenize keyword the construction ends
\* in the import error as it was raised; the message is printed before the error reaches
\* the caller, and in no other construction.
C7_ImportErrorAfterHint ==
    /\ (~lib_available /\ ~TokenizeGiven /\ Finished) =>
          (Failed /\ error = SpacyImportError)
    /\ error.type = "ImportError" => stdout = <<InstallHint>>
    /\ stdout # <<>> =>
          /\ ~lib_available
          /\ ~TokenizeGiven
          /\ stdout = <<InstallHint>>
          /\ pc \in {"L56", "raised"}
          /\ Failed => error = SpacyImportError

\* the import error at the caller, the message already printed
C7_Witness ==
    /\ Failed
    /\ error.type = "ImportError"
    /\ stdout = <<InstallHint>>

C9_EncoderStateFrozen ==
    /\ [][Constructed => (self' = self /\ Constructed')]_vars
    /\ [](pc = "returned" =>
            \A m, n \in 1..Len(sequences) :
                sequences[m] = sequences[n] => return_[m] = return_[n])

\* a second call, on a batch that holds a token outside the vocabulary
C9_Witness ==
    /\ pc = "returned"
    /\ calls >= 2
    /\ \E n \in 1..Len(sequences) :
          \E k \in 1..Len(TokensOf(n)) : TokensOf(n)[k] \notin DOMAIN self.stoi

\* what the first failing check of the constructor gives
ExpectedOutcome ==
    IF TokenizeGiven THEN TokenizeKeywordError
    ELSE IF ~lib_available THEN SpacyImportError
    ELSE IF Requested \notin Supported THEN NoTokenizerError(Requested, supported_languages)
    ELSE IF Requested \notin installed THEN LanguageNotFoundError(Requested)
    ELSE NoException

\* C10: the outcome of the constructor is that of the first failing check, in the order
\* tokenize keyword, import, supported language, model load; the load is attempted only
\* when the first three pass and the base class is initialised only when all four pass.
C10_FirstFailingCheckDecides ==
    /\ Finished => (error = ExpectedOutcome /\ (Constructed <=> error = NoException))
    /\ load_calls # <<>> => (~TokenizeGiven /\ lib_available /\ Requested \in Supported)
    /\ "stoi" \in DOMAIN self => ExpectedOutcome = NoException

\* no library and an unsupported code: the import error
C10_Witness ==
    /\ Failed
    /\ ~TokenizeGiven
    /\ ~lib_available
    /\ Requested \notin Supported
    /\ error.type = "ImportError"

====
